---- MODULE Spec2Model ----
(***************************************************************************)
(* A model of scripts/update_manifest.py: the Git blob hash, the sorted    *)
(* directory walk, the per-source manifest, the last-source-wins merge in  *)
(* main and the temp-file-then-replace write of the manifest.              *)
(*                                                                         *)
(* Text is modelled as sequences of character codes ("a.json" is           *)
(* <<97, 46, 106, 115, 111, 110>>), so that ordering, lower-casing and     *)
(* suffix tests are computed the way Python computes them on str.          *)
(***************************************************************************)
EXTENDS Integers, Sequences, FiniteSets, TLC

(***************************************************************************)
(* Bounds of the model.                                                    *)
(***************************************************************************)
\* the longest byte buffer handed to git_blob_sha1 in SpecHash
MaxBufLen == 3
\* the largest number of --source arguments on a command line
MaxSources == 2
\* how many times another process changes a source file during a run
MaxEnvWrites == 1
\* how many times the script is run again over the same arguments
MaxReruns == 1

(***************************************************************************)
(* Sequence helpers.                                                       *)
(***************************************************************************)
Range(s) == {s[n] : n \in 1..Len(s)}

RECURSIVE Concat(_)
Concat(ss) == IF Len(ss) = 0 THEN <<>> ELSE Head(ss) \o Concat(Tail(ss))

\* Python's sequence comparison: the first differing element decides, a
\* proper prefix is smaller.
RECURSIVE LexLess(_, _)
LexLess(a, b) ==
    IF Len(b) = 0 THEN FALSE
    ELSE IF Len(a) = 0 THEN TRUE
    ELSE IF a[1] # b[1] THEN a[1] < b[1]
    ELSE LexLess(Tail(a), Tail(b))

\* all the orders in which the elements of S can be listed
Perms(S) ==
    {p \in [1..Cardinality(S) -> S] : \A x, y \in 1..Cardinality(S) : p[x] = p[y] => x = y}

(***************************************************************************)
(* hashlib.sha1 on 32-bit words kept as <<high 16 bits, low 16 bits>>.     *)
(***************************************************************************)
RECURSIVE And16(_, _)
And16(x, y) ==
    IF x = 0 \/ y = 0 THEN 0
    ELSE (x % 2) * (y % 2) + 2 * And16(x \div 2, y \div 2)

WAnd(a, b) == <<And16(a[1], b[1]), And16(a[2], b[2])>>
WXor(a, b) ==
    <<a[1] + b[1] - 2 * And16(a[1], b[1]), a[2] + b[2] - 2 * And16(a[2], b[2])>>
WOr(a, b) == <<a[1] + b[1] - And16(a[1], b[1]), a[2] + b[2] - And16(a[2], b[2])>>
WNot(a) == <<65535 - a[1], 65535 - a[2]>>
WAdd(a, b) ==
    <<(a[1] + b[1] + ((a[2] + b[2]) \div 65536)) % 65536, (a[2] + b[2]) % 65536>>
\* rotate left by n < 16 bits
Rotl(a, n) ==
    <<((a[1] * 2^n) % 65536) + (a[2] \div 2^(16 - n)),
      ((a[2] * 2^n) % 65536) + (a[1] \div 2^(16 - n))>>
Rotl30(a) == Rotl(<<a[2], a[1]>>, 14)

\* the message, 0x80, zeros up to 56 mod 64, the bit length on 8 bytes
Sha1Pad(msg) ==
    LET n == Len(msg)
        z == (119 - (n % 64)) % 64
        bits == n * 8
    IN msg \o <<128>> \o [q \in 1..z |-> 0] \o <<0, 0, 0, 0>>
           \o <<(bits \div 16777216) % 256, (bits \div 65536) % 256,
                (bits \div 256) % 256, bits % 256>>

\* words t..stop of the message schedule (the Len test keeps the evaluation
\* strict)
RECURSIVE Sha1Schedule(_, _, _)
Sha1Schedule(w, t, stop) ==
    IF t > stop \/ Len(w) # t - 1 THEN w
    ELSE Sha1Schedule(
            Append(w, Rotl(WXor(WXor(w[t - 3], w[t - 8]), WXor(w[t - 14], w[t - 16])), 1)),
            t + 1, stop)

\* the first n words of the schedule, sixteen at a time
RECURSIVE Sha1Words(_, _)
Sha1Words(w16, n) ==
    IF n = 16 THEN w16 ELSE Sha1Schedule(Sha1Words(w16, n - 16), n - 15, n)

\* rounds t..stop-1 on the state <<a, b, c, d, e>>
RECURSIVE Sha1Rounds(_, _, _, _)
Sha1Rounds(st, w, t, stop) ==
    IF t = stop \/ Len(st) # 5 THEN st
    ELSE LET a == st[1]
             b == st[2]
             c == st[3]
             d == st[4]
             e == st[5]
             f == IF t < 20 THEN WOr(WAnd(b, c), WAnd(WNot(b), d))
                  ELSE IF t < 40 THEN WXor(WXor(b, c), d)
                  ELSE IF t < 60 THEN WOr(WOr(WAnd(b, c), WAnd(b, d)), WAnd(c, d))
                  ELSE WXor(WXor(b, c), d)
             k == IF t < 20 THEN <<23170, 31129>>
                  ELSE IF t < 40 THEN <<28377, 60321>>
                  ELSE IF t < 60 THEN <<36635, 48348>>
                  ELSE <<51810, 49622>>
             temp == WAdd(WAdd(WAdd(WAdd(Rotl(a, 5), f), e), k), w[t + 1])
         IN Sha1Rounds(<<temp, a, Rotl30(b), c, d>>, w, t + 1, stop)

\* the first n rounds, ten at a time
RECURSIVE Sha1RoundsTo(_, _, _)
Sha1RoundsTo(h, w, n) ==
    IF n = 0 THEN h ELSE Sha1Rounds(Sha1RoundsTo(h, w, n - 10), w, n - 10, n)

Sha1Block(h, blk) ==
    LET w16 == [q \in 1..16 |->
                  <<blk[4 * q - 3] * 256 + blk[4 * q - 2], blk[4 * q - 1] * 256 + blk[4 * q]>>]
        w == Sha1Words(w16, 80)
        r == Sha1RoundsTo(h, w, 80)
    IN [q \in 1..5 |-> WAdd(h[q], r[q])]

RECURSIVE Sha1Blocks(_, _)
Sha1Blocks(h, m) ==
    IF Len(m) = 0 THEN h
    ELSE Sha1Blocks(Sha1Block(h, SubSeq(m, 1, 64)), SubSeq(m, 65, Len(m)))

\* one lowercase hexadecimal digit, as its character code
HexChar(n) == IF n < 10 THEN 48 + n ELSE 87 + n
HexHalf(x) ==
    <<HexChar(x \div 4096), HexChar((x \div 256) % 16),
      HexChar((x \div 16) % 16), HexChar(x % 16)>>

\* h.hexdigest() of a sha1 object that has absorbed `stream`
Sha1Hex(stream) ==
    LET h == Sha1Blocks(<<<<26437, 8961>>, <<61389, 43913>>, <<39098, 56574>>,
                          <<4146, 21622>>, <<50130, 57840>>>>, Sha1Pad(stream))
    IN Concat([q \in 1..10 |-> HexHalf(h[(q + 1) \div 2][2 - (q % 2)])])

(***************************************************************************)
(* git_blob_sha1                                                           *)
(***************************************************************************)
\* str(n).encode("ascii") for n >= 0
RECURSIVE Decimal(_)
Decimal(n) == IF n < 10 THEN <<48 + n>> ELSE Append(Decimal(n \div 10), 48 + (n % 10))

\* a header that leaves the length out
BlobHeaderNoLen(data) == <<98, 108, 111, 98, 32, 0>>
\* header = b"blob " + str(len(data)).encode("ascii") + b"\0"
BlobHeader(data) == <<98, 108, 111, 98, 32>> \o Decimal(Len(data)) \o <<0>>

\* the whole function: the digest of the header followed by the data
git_blob_sha1(data) == Sha1Hex(BlobHeader(data) \o data)

(***************************************************************************)
(* str and os.path operations, on sequences of character codes.            *)
(***************************************************************************)
\* str.lower() on ASCII
Lower(s) == [n \in 1..Len(s) |-> IF s[n] >= 65 /\ s[n] <= 90 THEN s[n] + 32 ELSE s[n]]

EndsWith(s, e) == Len(e) <= Len(s) /\ SubSeq(s, Len(s) - Len(e) + 1, Len(s)) = e

StartsWith(s, e) == Len(e) <= Len(s) /\ SubSeq(s, 1, Len(e)) = e

\* s.replace(chr(a), chr(b))
ReplaceChar(s, a, b) == [n \in 1..Len(s) |-> IF s[n] = a THEN b ELSE s[n]]

\* the position of the first c in s, 0 when there is none
RECURSIVE IndexOf(_, _)
IndexOf(s, c) ==
    IF Len(s) = 0 THEN 0
    ELSE IF s[1] = c THEN 1
    ELSE LET r == IndexOf(Tail(s), c) IN IF r = 0 THEN 0 ELSE r + 1

\* s.split(chr(c)): the pieces between every two separators
RECURSIVE Split(_, _)
Split(s, c) ==
    LET p == IndexOf(s, c)
    IN IF p = 0 THEN <<s>>
       ELSE <<SubSeq(s, 1, p - 1)>> \o Split(SubSeq(s, p + 1, Len(s)), c)

\* chr(c).join(parts)
RECURSIVE Join(_, _)
Join(parts, c) ==
    IF Len(parts) = 0 THEN <<>>
    ELSE IF Len(parts) = 1 THEN parts[1]
    ELSE parts[1] \o <<c>> \o Join(Tail(parts), c)

IsSpace(c) == c \in {9, 10, 11, 12, 13, 32}

RECURSIVE LStrip(_)
LStrip(s) == IF Len(s) > 0 /\ IsSpace(s[1]) THEN LStrip(Tail(s)) ELSE s

RECURSIVE RStrip(_)
RStrip(s) ==
    IF Len(s) > 0 /\ IsSpace(s[Len(s)]) THEN RStrip(SubSeq(s, 1, Len(s) - 1)) ELSE s

\* str.strip()
Strip(s) == RStrip(LStrip(s))

\* posixpath.normpath's loop over the components of a path
RECURSIVE NormComps(_, _, _)
NormComps(comps, acc, rooted) ==
    IF Len(comps) = 0 THEN acc
    ELSE LET c == Head(comps)
         IN IF c = <<>> \/ c = <<46>> THEN NormComps(Tail(comps), acc, rooted)
            ELSE IF c # <<46, 46>>
                    \/ (~rooted /\ Len(acc) = 0)
                    \/ (Len(acc) > 0 /\ acc[Len(acc)] = <<46, 46>>)
                 THEN NormComps(Tail(comps), Append(acc, c), rooted)
            ELSE IF Len(acc) > 0
                 THEN NormComps(Tail(comps), SubSeq(acc, 1, Len(acc) - 1), rooted)
            ELSE NormComps(Tail(comps), acc, rooted)

\* the components of os.path.normpath(path); a leading "/" is kept as an
\* empty first component
PathComps(path) ==
    LET rooted == StartsWith(path, <<47>>)
        comps == NormComps(Split(path, 47), <<>>, rooted)
    IN IF rooted THEN <<<<>>>> \o comps ELSE comps

\* os.path.normpath(path)
NormPath(path) ==
    LET cs == PathComps(path)
    IN IF cs = <<>> THEN <<46>>
       ELSE IF cs = <<<<>>>> THEN <<47>>
       ELSE Join(cs, 47)

\* os.path.basename(path)
Basename(path) == LET parts == Split(path, 47) IN parts[Len(parts)]

\* os.path.dirname(path)
Dirname(path) ==
    LET parts == Split(path, 47)
        head == Join(SubSeq(parts, 1, Len(parts) - 1), 47)
    IN IF Len(parts) = 1 THEN <<>>
       ELSE IF head = <<>> THEN <<47>>
       ELSE head

\* os.path.join(a, b) for a relative b
PathJoin(a, b) ==
    IF Len(a) = 0 \/ a[Len(a)] = 47 THEN a \o b ELSE a \o <<47>> \o b

\* os.path.relpath(full, start) for a path below start: what is left of the
\* normalised path after the normalised start
RelPath(full, start) ==
    LET f == PathComps(full)
        st == PathComps(start)
    IN IF Len(f) = Len(st) THEN <<46>> ELSE Join(SubSeq(f, Len(st) + 1, Len(f)), 47)

(***************************************************************************)
(* dict, as the sequence of its <<key, value>> items in insertion order.   *)
(***************************************************************************)
DictKeys(d) == [n \in 1..Len(d) |-> d[n][1]]

DictHas(d, k) == \E n \in 1..Len(d) : d[n][1] = k

DictGet(d, k) == d[CHOOSE n \in 1..Len(d) : d[n][1] = k][2]

\* d[k] = v: a new key goes last, an old key keeps its place
DictSet(d, k, v) ==
    IF DictHas(d, k)
    THEN [n \in 1..Len(d) |-> IF d[n][1] = k THEN <<k, v>> ELSE d[n]]
    ELSE Append(d, <<k, v>>)

\* sorted(xs) for a list of strings without repetition
RECURSIVE InsertSorted(_, _)
InsertSorted(xs, x) ==
    IF Len(xs) = 0 THEN <<x>>
    ELSE IF LexLess(x, xs[1]) THEN <<x>> \o xs
    ELSE <<xs[1]>> \o InsertSorted(Tail(xs), x)

RECURSIVE Sorted(_)
Sorted(xs) ==
    IF Len(xs) = 0 THEN <<>>
    ELSE InsertSorted(Sorted(SubSeq(xs, 1, Len(xs) - 1)), xs[Len(xs)])

(***************************************************************************)
(* The inputs of the model: command lines and a source tree.               *)
(***************************************************************************)
\* file contents: {"a":1}   {}   (empty)   {"a":2}
ContentList ==
    <<<<123, 34, 97, 34, 58, 49, 125>>, <<123, 125>>, <<>>, <<123, 34, 97, 34, 58, 50, 125>>>>

Contents == Range(ContentList)

\* the directories of the source tree: r, r/A, r/B, r/B/sub
Dirs == {<<<<114>>>>, <<<<114>>, <<65>>>>, <<<<114>>, <<66>>>>,
         <<<<114>>, <<66>>, <<115, 117, 98>>>>}

\* the files of the source tree, all readable:
\*   r/A/b.json  r/A/a.json  r/A/c.txt  r/B/a.json  r/B/B.JSON  r/B/sub/b.json
Tree ==
    LET A == <<<<114>>, <<65>>>>
        B == <<<<114>>, <<66>>>>
        file(d) == [data |-> d, ok |-> TRUE]
    IN (A \o <<<<98, 46, 106, 115, 111, 110>>>> :> file(<<123, 34, 97, 34, 58, 49, 125>>))
       @@ (A \o <<<<97, 46, 106, 115, 111, 110>>>> :> file(<<123, 125>>))
       @@ (A \o <<<<99, 46, 116, 120, 116>>>> :> file(<<>>))
       @@ (B \o <<<<97, 46, 106, 115, 111, 110>>>> :> file(<<123, 34, 97, 34, 58, 50, 125>>))
       @@ (B \o <<<<66, 46, 74, 83, 79, 78>>>> :> file(<<123, 125>>))
       @@ (B \o <<<<115, 117, 98>>, <<98, 46, 106, 115, 111, 110>>>>
             :> file(<<123, 34, 97, 34, 58, 49, 125>>))

\* the files one of which a run may find unreadable: r/A/a.json, r/B/sub/b.json
MayBeUnreadable ==
    {<<<<114>>, <<65>>, <<97, 46, 106, 115, 111, 110>>>>,
     <<<<114>>, <<66>>, <<115, 117, 98>>, <<98, 46, 106, 115, 111, 110>>>>}

\* the source trees a run starts from: all readable, or one file unreadable
Trees ==
    {Tree} \cup {[Tree EXCEPT ![f].ok = FALSE] : f \in MayBeUnreadable}

\* the values a --source option takes:
\*   cards=r/A   cards= r/B   r/B/   r/M (missing)   x=r/A/c.txt (a file)   x=r/B/sub
SourceArgs ==
    {<<99, 97, 114, 100, 115, 61, 114, 47, 65>>,
     <<99, 97, 114, 100, 115, 61, 32, 114, 47, 66>>,
     <<114, 47, 66, 47>>,
     <<114, 47, 77>>,
     <<120, 61, 114, 47, 65, 47, 99, 46, 116, 120, 116>>,
     <<120, 61, 114, 47, 66, 47, 115, 117, 98>>}

\* the lists of --source options of at most n values
SourceLists(n) == UNION {[1..m -> SourceArgs] : m \in 0..n}

\* the values of the --include-ext options of a command line: none, or "txt"
ExtArgs == {<<>>, <<<<116, 120, 116>>>>}

\* --output values: out/m.json and m.json
OutNested == <<111, 117, 116, 47, 109, 46, 106, 115, 111, 110>>
OutFlat == <<109, 46, 106, 115, 111, 110>>

(***************************************************************************)
(* The state.                                                              *)
(***************************************************************************)
VARIABLES
    source,          \* args.source
    include_ext,     \* args.include_ext
    output,          \* args.output
    digests,         \* git_blob_sha1 of each content of the model, computed once
    fs,              \* the source files: path components -> [data, ok]
    envWrites,       \* how many changes other processes may still make to fs
    touched,         \* "no", or how another process changed fs: "yes", or "midread"
                     \* when it changed a file between its read and its entry
    pc,              \* where main is
    rc,              \* main's return value, -1 before it returns
    exts,            \* main's exts
    combined,        \* main's combined
    i,               \* the index in args.source of the source being processed
    key,             \* main's key for that source
    path,            \* main's path for that source
    pending,         \* os.walk: the directories still to list
    files,           \* gather_files' files
    j,               \* build_manifest: the index in files of the file being read
    data,            \* build_manifest's data
    manifest_files,  \* build_manifest's manifest_files
    warnings,        \* what was printed to stderr, in order
    produced,        \* the files_map each valid source returned, in order
    scanned,         \* the files lists gather_files returned, in order
    clock,           \* the time datetime.now returns
    odirs,           \* the output directories that exist
    names,           \* the output directory entries: path -> inode number
    inodes,          \* the content of each inode: a sequence of tokens
    prior,           \* what the destination held at Init: an inode number, 0 if absent
    w,               \* per invocation, write_output's state: pc, obj, fd
    runs,            \* how many runs were completed before this one
    previous,        \* what the previous run scanned and wrote
    hpc, hdata, hheader, hstream, hdigest, hfirst   \* a call of git_blob_sha1

vars == <<source, include_ext, output, digests, fs, envWrites, touched, pc, rc, exts, combined,
          i, key, path, pending, files, j, data, manifest_files, warnings, produced,
          scanned, clock, odirs, names, inodes, prior, w, runs, previous,
          hpc, hdata, hheader, hstream, hdigest, hfirst>>

mainVars == <<pc, rc, exts, combined, i, key, path, pending, files, j, data,
              manifest_files, warnings, produced, scanned>>
\* what no step of a run changes
fixedVars == <<source, include_ext, output, digests>>
outVars == <<odirs, names, inodes, prior>>
hashVars == <<hpc, hdata, hheader, hstream, hdigest, hfirst>>

\* the invocations of the script that write the same destination
Procs == {1, 2}

(***************************************************************************)
(* The parts of the state a specification leaves alone.                    *)
(***************************************************************************)
\* main before its first statement
MainAtStart ==
    /\ pc = "start" /\ rc = -1 /\ exts = {} /\ combined = <<>> /\ i = 0
    /\ key = <<>> /\ path = <<>> /\ pending = <<>> /\ files = <<>> /\ j = 0
    /\ data = <<>> /\ manifest_files = <<>> /\ warnings = <<>> /\ produced = <<>>
    /\ scanned = <<>>

\* write_output not called
NotWriting == [pc |-> "idle", obj |-> [generated |-> 0, files |-> <<>>], ino |-> 0, off |-> 0]

\* no call of git_blob_sha1 under way
HashIdle ==
    /\ hpc = "idle" /\ hdata = <<>> /\ hheader = <<>> /\ hstream = <<>>
    /\ hdigest = <<>> /\ hfirst = <<>>

(***************************************************************************)
(* git_blob_sha1, statement by statement.                                  *)
(***************************************************************************)
\* the bytes of the buffers: NUL, "1", "b"
Bytes == {0, 49, 98}

\* the buffers hashed: every buffer of at most MaxBufLen bytes, {"a":1}, and
\* two buffers whose length takes two decimal digits, one a prefix of the other
Buffers ==
    UNION {[1..m -> Bytes] : m \in 0..MaxBufLen}
        \cup {<<123, 34, 97, 34, 58, 49, 125>>, [q \in 1..10 |-> 49], [q \in 1..11 |-> 49]}

\* header = ...; h = hashlib.sha1()
HashHeader ==
    /\ hpc = "call"
    /\ hheader' = BlobHeader(hdata)
    /\ hstream' = <<>>
    /\ hpc' = "header"
    /\ UNCHANGED <<hdata, hdigest, hfirst>>
    /\ UNCHANGED <<fixedVars, fs, envWrites, touched, mainVars, clock, outVars, w, runs, previous>>

\* h.update(header)
HashUpdateHeader ==
    /\ hpc = "header"
    /\ hstream' = hstream \o hheader
    /\ hpc' = "data"
    /\ UNCHANGED <<hdata, hheader, hdigest, hfirst>>
    /\ UNCHANGED <<fixedVars, fs, envWrites, touched, mainVars, clock, outVars, w, runs, previous>>

\* h.update(data)
HashUpdateData ==
    /\ hpc = "data"
    /\ hstream' = hstream \o hdata
    /\ hpc' = "digest"
    /\ UNCHANGED <<hdata, hheader, hdigest, hfirst>>
    /\ UNCHANGED <<fixedVars, fs, envWrites, touched, mainVars, clock, outVars, w, runs, previous>>

\* return h.hexdigest()
HashDigest ==
    /\ hpc = "digest"
    /\ hdigest' = Sha1Hex(hstream)
    /\ hpc' = "done"
    /\ UNCHANGED <<hdata, hheader, hstream, hfirst>>
    /\ UNCHANGED <<fixedVars, fs, envWrites, touched, mainVars, clock, outVars, w, runs, previous>>

\* the caller keeps the digest and calls the function again on the same buffer
HashAgain ==
    /\ hpc = "done"
    /\ hfirst = <<>>
    /\ hfirst' = hdigest
    /\ hpc' = "call"
    /\ UNCHANGED <<hdata, hheader, hstream, hdigest>>
    /\ UNCHANGED <<fixedVars, fs, envWrites, touched, mainVars, clock, outVars, w, runs, previous>>

(***************************************************************************)
(* gather_files and build_manifest.                                        *)
(***************************************************************************)
\* git_blob_sha1 of every content of the model, in the order of ContentList
DigestTable == [n \in 1..Len(ContentList) |-> git_blob_sha1(ContentList[n])]

\* git_blob_sha1(data) for the content of a source file, looked up in digests
BlobSha(b) == digests[CHOOSE n \in 1..Len(ContentList) : ContentList[n] = b]

\* os.path.isdir(p)
IsDir(p) == PathComps(p) \in Dirs

\* the names os.scandir finds in directory d
EntryNames(d) ==
    {q[Len(d) + 1] : q \in {r \in (DOMAIN fs) \cup Dirs :
                              Len(r) > Len(d) /\ SubSeq(r, 1, Len(d)) = d}}

\* include_exts = {'.json'} when the caller passes none
DefaultExts == {<<46, 106, 115, 111, 110>>}

\* the include_exts argument of build_manifest's call gather_files(source_dir):
\* there is none
BuildIncludeExts == [none |-> TRUE, set |-> {}]

\* if include_exts is None: include_exts = {'.json'}
GatherExts(arg) == IF arg.none THEN DefaultExts ELSE arg.set

\* not (include_exts and not any(fn.lower().endswith(e) for e in include_exts))
Included(fn, include_exts) ==
    include_exts = {} \/ \E e \in include_exts : EndsWith(Lower(fn), e)

\* a walk that visits the entries in the order the filesystem lists them
KeepOrder(listed) == listed
\* dirs.sort() / filenames.sort()
SortNames(listed) == Sorted(listed)

\* the (full, rel) pairs gather_files appends for the directory `root`, whose
\* entries the filesystem lists in the order `listed`
FoundIn(root, listed, source_dir, include_exts) ==
    LET d == PathComps(root)
        IsFile(n) == Append(d, n) \in DOMAIN fs
        Keep(n) == Included(n, include_exts)
        kept == SelectSeq(SortNames(SelectSeq(listed, IsFile)), Keep)
    IN [n \in 1..Len(kept) |->
          <<PathJoin(root, kept[n]),
            ReplaceChar(RelPath(PathJoin(root, kept[n]), source_dir), 92, 47)>>]

\* the directories os.walk goes down into from `root`, in the order it does
SubDirs(root, listed) ==
    LET d == PathComps(root)
        IsSub(n) == Append(d, n) \in Dirs
        dirs == SortNames(SelectSeq(listed, IsSub))
    IN [n \in 1..Len(dirs) |-> PathJoin(root, dirs[n])]

\* one iteration of `for root, dirs, filenames in os.walk(source_dir)`; after
\* the last one gather_files returns and build_manifest starts to read
WalkDir ==
    /\ pc = "walk"
    /\ pending # <<>>
    /\ \E listed \in Perms(EntryNames(PathComps(Head(pending)))) :
          /\ files' = files \o FoundIn(Head(pending), listed, path, GatherExts(BuildIncludeExts))
          /\ pending' = SubDirs(Head(pending), listed) \o Tail(pending)
    /\ pc' = IF pending' = <<>> THEN "read" ELSE "walk"
    /\ scanned' = IF pending' = <<>> THEN Append(scanned, files') ELSE scanned
    /\ j' = 1
    /\ UNCHANGED <<rc, exts, combined, i, key, path, data, manifest_files, warnings,
                   produced>>
    /\ UNCHANGED <<fixedVars, fs, envWrites, touched, clock, outVars, w, runs, previous,
                   hashVars>>

\* whether open(full, 'rb') and f.read() succeed
Readable(full) == PathComps(full) \in DOMAIN fs /\ fs[PathComps(full)].ok

\* with open(full, 'rb') as f: data = f.read()
ReadFile ==
    /\ pc = "read"
    /\ j <= Len(files)
    /\ Readable(files[j][1])
    /\ data' = fs[PathComps(files[j][1])].data
    /\ pc' = "hash"
    /\ UNCHANGED <<rc, exts, combined, i, key, path, pending, files, j, manifest_files,
                   warnings, produced, scanned>>
    /\ UNCHANGED <<fixedVars, fs, envWrites, touched, clock, outVars, w, runs, previous,
                   hashVars>>

\* a read failure that is not caught
ReadFailRaises ==
    /\ pc = "read"
    /\ j <= Len(files)
    /\ ~Readable(files[j][1])
    /\ pc' = "raised"
    /\ UNCHANGED <<rc, exts, combined, i, key, path, pending, files, j, data,
                   manifest_files, warnings, produced, scanned>>
    /\ UNCHANGED <<fixedVars, fs, envWrites, touched, clock, outVars, w, runs, previous,
                   hashVars>>
\* except Exception: print a warning; continue
ReadFail ==
    /\ pc = "read"
    /\ j <= Len(files)
    /\ ~Readable(files[j][1])
    /\ warnings' = Append(warnings, <<"unreadable", files[j][1]>>)
    /\ j' = j + 1
    /\ UNCHANGED <<pc, rc, exts, combined, i, key, path, pending, files, data,
                   manifest_files, produced, scanned>>
    /\ UNCHANGED <<fixedVars, fs, envWrites, touched, clock, outVars, w, runs, previous,
                   hashVars>>

\* an entry whose size is asked of the file system after the read
EntryStatSize(buf, full) ==
    [sha |-> BlobSha(buf),
     size |-> IF PathComps(full) \in DOMAIN fs THEN Len(fs[PathComps(full)].data) ELSE 0]
\* sha = git_blob_sha1(data); size = len(data); { 'sha': sha, 'size': size }
EntryOf(buf, full) == [sha |-> BlobSha(buf), size |-> Len(buf)]

\* key = f"{source_key}/{rel}" if source_key else rel
ManifestKey(source_key, rel) ==
    IF source_key # <<>> THEN source_key \o <<47>> \o rel ELSE rel

\* the rest of the loop body: manifest_files[key] = { 'sha': sha, 'size': size }
RecordFile ==
    /\ pc = "hash"
    /\ manifest_files' = DictSet(manifest_files, ManifestKey(key, files[j][2]),
                                 EntryOf(data, files[j][1]))
    /\ j' = j + 1
    /\ data' = <<>>
    /\ pc' = "read"
    /\ UNCHANGED <<rc, exts, combined, i, key, path, pending, files, warnings, produced,
                   scanned>>
    /\ UNCHANGED <<fixedVars, fs, envWrites, touched, clock, outVars, w, runs, previous,
                   hashVars>>

(***************************************************************************)
(* main, up to the call of write_output.                                   *)
(***************************************************************************)
\* e if e.startswith('.') else ('.' + e)
NormExt(e) == IF StartsWith(e, <<46>>) THEN e ELSE <<46>> \o e

\* key of a --source value: "key=path" or just "path"
SourceKey(s) ==
    IF IndexOf(s, 61) # 0 THEN Strip(SubSeq(s, 1, IndexOf(s, 61) - 1))
    ELSE Basename(NormPath(s))

\* path of a --source value
SourcePath(s) ==
    IF IndexOf(s, 61) # 0 THEN Strip(SubSeq(s, IndexOf(s, 61) + 1, Len(s))) ELSE s

\* if not args.source: print an error; return 2
MainNoSource ==
    /\ pc = "start"
    /\ source = <<>>
    /\ warnings' = Append(warnings, <<"nosource", <<>>>>)
    /\ rc' = 2
    /\ pc' = "done"
    /\ UNCHANGED <<exts, combined, i, key, path, pending, files, j, data, manifest_files,
                   produced, scanned>>
    /\ UNCHANGED <<fixedVars, fs, envWrites, touched, clock, outVars, w, runs, previous,
                   hashVars>>

\* exts = set(...); combined = {}
MainStart ==
    /\ pc = "start"
    /\ source # <<>>
    /\ exts' = {NormExt(e) : e \in Range(include_ext)}
    /\ combined' = <<>>
    /\ i' = 1
    /\ pc' = "loop"
    /\ UNCHANGED <<rc, key, path, pending, files, j, data, manifest_files, warnings,
                   produced, scanned>>
    /\ UNCHANGED <<fixedVars, fs, envWrites, touched, clock, outVars, w, runs, previous,
                   hashVars>>

\* if not os.path.isdir(path): print a warning; continue
MainSkipSource ==
    /\ pc = "loop"
    /\ i <= Len(source)
    /\ ~IsDir(SourcePath(source[i]))
    /\ key' = SourceKey(source[i])
    /\ path' = SourcePath(source[i])
    /\ warnings' = Append(warnings, <<"missing", SourcePath(source[i])>>)
    /\ i' = i + 1
    /\ UNCHANGED <<pc, rc, exts, combined, pending, files, j, data, manifest_files,
                   produced, scanned>>
    /\ UNCHANGED <<fixedVars, fs, envWrites, touched, clock, outVars, w, runs, previous,
                   hashVars>>

\* files_map = build_manifest(path, key), up to the start of os.walk
MainBuild ==
    /\ pc = "loop"
    /\ i <= Len(source)
    /\ IsDir(SourcePath(source[i]))
    /\ key' = SourceKey(source[i])
    /\ path' = SourcePath(source[i])
    /\ manifest_files' = <<>>
    /\ files' = <<>>
    /\ pending' = <<SourcePath(source[i])>>
    /\ pc' = "walk"
    /\ UNCHANGED <<rc, exts, combined, i, j, data, warnings, produced, scanned>>
    /\ UNCHANGED <<fixedVars, fs, envWrites, touched, clock, outVars, w, runs, previous,
                   hashVars>>

\* a merge that keeps the entry of the earlier source
RECURSIVE MergeKeepFirst(_, _, _)
MergeKeepFirst(items, comb, warns) ==
    IF Len(items) = 0 THEN <<comb, warns>>
    ELSE MergeKeepFirst(
            Tail(items),
            IF DictHas(comb, items[1][1]) THEN comb
            ELSE DictSet(comb, items[1][1], items[1][2]),
            IF DictHas(comb, items[1][1])
            THEN Append(warns, <<"duplicate", items[1][1]>>)
            ELSE warns)
\* for k, v in files_map.items(): warn if k in combined; combined[k] = v
RECURSIVE MergeItems(_, _, _)
MergeItems(items, comb, warns) ==
    IF Len(items) = 0 THEN <<comb, warns>>
    ELSE MergeItems(
            Tail(items),
            DictSet(comb, items[1][1], items[1][2]),
            IF DictHas(comb, items[1][1])
            THEN Append(warns, <<"duplicate", items[1][1]>>)
            ELSE warns)

\* build_manifest returns manifest_files and main merges it into combined
BuildReturn ==
    /\ pc = "read"
    /\ j > Len(files)
    /\ LET merged == MergeItems(manifest_files, combined, warnings)
       IN /\ combined' = merged[1]
          /\ warnings' = merged[2]
    /\ produced' = Append(produced, [path |-> path, key |-> key, map |-> manifest_files])
    /\ i' = i + 1
    /\ pc' = "loop"
    /\ UNCHANGED <<rc, exts, key, path, pending, files, j, data, manifest_files, scanned>>
    /\ UNCHANGED <<fixedVars, fs, envWrites, touched, clock, outVars, w, runs, previous,
                   hashVars>>

\* an order of the keys that is the order of insertion
InsertionKeys(files_map) == DictKeys(files_map)
\* sorted(files_map.keys())
SortedKeys(files_map) == Sorted(DictKeys(files_map))

\* obj = {'generated': now, 'files': {k: {sha, size} for k in sorted keys}}
ManifestObj(files_map, now) ==
    LET ks == SortedKeys(files_map)
    IN [generated |-> now,
        files |-> [n \in 1..Len(ks) |->
                     <<ks[n], [sha |-> DictGet(files_map, ks[n]).sha,
                               size |-> DictGet(files_map, ks[n]).size]>>]]

\* main calls write_output whatever combined holds
MainWritesAnyway ==
    /\ pc = "loop"
    /\ i > Len(source)
    /\ combined = <<>>
    /\ w' = [w EXCEPT ![1] = [pc |-> "makedirs", obj |-> ManifestObj(combined, clock),
                              ino |-> 0, off |-> 0]]
    /\ clock' = clock + 1
    /\ pc' = "write"
    /\ UNCHANGED <<rc, exts, combined, i, key, path, pending, files, j, data,
                   manifest_files, warnings, produced, scanned>>
    /\ UNCHANGED <<fixedVars, fs, envWrites, touched, outVars, runs, previous, hashVars>>
\* if not combined: print an error; return 2
MainNoFiles ==
    /\ pc = "loop"
    /\ i > Len(source)
    /\ combined = <<>>
    /\ warnings' = Append(warnings, <<"nofiles", <<>>>>)
    /\ rc' = 2
    /\ pc' = "done"
    /\ UNCHANGED <<exts, combined, i, key, path, pending, files, j, data, manifest_files,
                   produced, scanned>>
    /\ UNCHANGED <<fixedVars, fs, envWrites, touched, clock, outVars, w, runs, previous,
                   hashVars>>

\* write_output(args.output, combined), up to the end of the loop that fills obj
MainCallWrite ==
    /\ pc = "loop"
    /\ i > Len(source)
    /\ combined # <<>>
    /\ w' = [w EXCEPT ![1] = [pc |-> "makedirs", obj |-> ManifestObj(combined, clock),
                              ino |-> 0, off |-> 0]]
    /\ clock' = clock + 1
    /\ pc' = "write"
    /\ UNCHANGED <<rc, exts, combined, i, key, path, pending, files, j, data,
                   manifest_files, warnings, produced, scanned>>
    /\ UNCHANGED <<fixedVars, fs, envWrites, touched, outVars, runs, previous, hashVars>>

\* return 0, once write_output has returned
MainReturn ==
    /\ pc = "write"
    /\ w[1].pc = "returned"
    /\ rc' = 0
    /\ pc' = "done"
    /\ UNCHANGED <<exts, combined, i, key, path, pending, files, j, data, manifest_files,
                   warnings, produced, scanned>>
    /\ UNCHANGED <<fixedVars, fs, envWrites, touched, clock, outVars, w, runs, previous,
                   hashVars>>

(***************************************************************************)
(* write_output, from os.makedirs on.  A file is a sequence of tokens: the *)
(* opening of the document with its timestamp, one token per entry, and    *)
(* the closing with the final newline.  A directory entry names an inode;  *)
(* an open file keeps its inode and its own offset.                        *)
(***************************************************************************)
\* json.dump(obj, f, indent=2, ensure_ascii=False); f.write('\n')
Doc(obj) ==
    <<<<"head", obj.generated>>>>
        \o [n \in 1..Len(obj.files) |-> <<"entry", obj.files[n]>>]
        \o <<<<"tail", 0>>>>

\* a temporary path that is the destination itself
TmpSamePath(out_path) == out_path
\* tmp = out_path + '.tmp'
TmpPath(out_path) == out_path \o <<46, 116, 109, 112>>

\* os.path.dirname(out_path) or '.'
OutDir(out_path) == IF Dirname(out_path) = <<>> THEN <<46>> ELSE Dirname(out_path)

\* a write of the tokens toks at offset off of a file
WriteAt(content, off, toks) ==
    LET end == IF Len(content) > off + Len(toks) THEN Len(content) ELSE off + Len(toks)
    IN [n \in 1..end |->
          IF n > off /\ n <= off + Len(toks) THEN toks[n - off]
          ELSE IF n <= Len(content) THEN content[n]
          ELSE <<"hole", 0>>]

Unlink(dir, name) == [q \in (DOMAIN dir) \ {name} |-> dir[q]]

\* os.makedirs(os.path.dirname(out_path) or '.', exist_ok=True)
WMakeDirs(p) ==
    /\ w[p].pc = "makedirs"
    /\ odirs' = odirs \cup {OutDir(output)}
    /\ w' = [w EXCEPT ![p].pc = "open"]
    /\ UNCHANGED <<names, inodes, prior>>
    /\ UNCHANGED <<fixedVars, fs, envWrites, touched, mainVars, clock, runs, previous, hashVars>>

\* os.makedirs raises: the directory is not there and cannot be made
WMakeDirsFail(p) ==
    /\ w[p].pc = "makedirs"
    /\ OutDir(output) \notin odirs
    /\ w' = [w EXCEPT ![p].pc = "failed"]
    /\ UNCHANGED <<outVars>>
    /\ UNCHANGED <<fixedVars, fs, envWrites, touched, mainVars, clock, runs, previous, hashVars>>

\* open(tmp, 'w', encoding='utf-8'): the file is made, or emptied if it is there
WOpen(p) ==
    /\ w[p].pc = "open"
    /\ IF TmpPath(output) \in DOMAIN names
       THEN /\ inodes' = [inodes EXCEPT ![names[TmpPath(output)]] = <<>>]
            /\ names' = names
            /\ w' = [w EXCEPT ![p].pc = "writing", ![p].ino = names[TmpPath(output)],
                              ![p].off = 0]
       ELSE /\ inodes' = Append(inodes, <<>>)
            /\ names' = (TmpPath(output) :> (Len(inodes) + 1)) @@ names
            /\ w' = [w EXCEPT ![p].pc = "writing", ![p].ino = Len(inodes) + 1,
                              ![p].off = 0]
    /\ UNCHANGED <<odirs, prior>>
    /\ UNCHANGED <<fixedVars, fs, envWrites, touched, mainVars, clock, runs, previous, hashVars>>

\* open raises
WOpenFail(p) ==
    /\ w[p].pc = "open"
    /\ w' = [w EXCEPT ![p].pc = "failed"]
    /\ UNCHANGED <<outVars>>
    /\ UNCHANGED <<fixedVars, fs, envWrites, touched, mainVars, clock, runs, previous, hashVars>>

\* the file object hands the next part of the document to the file, at the
\* offset of this open file; how much at a time is up to its buffer
WWrite(p) ==
    /\ w[p].pc = "writing"
    /\ w[p].off < Len(Doc(w[p].obj))
    /\ \E k \in 1..(Len(Doc(w[p].obj)) - w[p].off) :
          /\ inodes' = [inodes EXCEPT ![w[p].ino] =
                           WriteAt(@, w[p].off,
                                   SubSeq(Doc(w[p].obj), w[p].off + 1, w[p].off + k))]
          /\ w' = [w EXCEPT ![p].off = w[p].off + k]
    /\ UNCHANGED <<odirs, names, prior>>
    /\ UNCHANGED <<fixedVars, fs, envWrites, touched, mainVars, clock, runs, previous, hashVars>>

\* a write or the flush on close raises; the with statement closes the file
WWriteFail(p) ==
    /\ w[p].pc = "writing"
    /\ w' = [w EXCEPT ![p].pc = "failed"]
    /\ UNCHANGED <<outVars>>
    /\ UNCHANGED <<fixedVars, fs, envWrites, touched, mainVars, clock, runs, previous, hashVars>>

\* the with statement ends: everything is written and the file is closed
WClose(p) ==
    /\ w[p].pc = "writing"
    /\ w[p].off = Len(Doc(w[p].obj))
    /\ w' = [w EXCEPT ![p].pc = "replace"]
    /\ UNCHANGED <<outVars>>
    /\ UNCHANGED <<fixedVars, fs, envWrites, touched, mainVars, clock, runs, previous, hashVars>>

\* os.replace(tmp, out_path), and the print that follows
WReplace(p) ==
    /\ w[p].pc = "replace"
    /\ TmpPath(output) \in DOMAIN names
    /\ names' = (output :> names[TmpPath(output)]) @@ Unlink(names, TmpPath(output))
    /\ w' = [w EXCEPT ![p].pc = "returned"]
    /\ UNCHANGED <<odirs, inodes, prior>>
    /\ UNCHANGED <<fixedVars, fs, envWrites, touched, mainVars, clock, runs, previous, hashVars>>

\* os.replace raises, whatever the reason
WReplaceFail(p) ==
    /\ w[p].pc = "replace"
    /\ w' = [w EXCEPT ![p].pc = "failed"]
    /\ UNCHANGED <<outVars>>
    /\ UNCHANGED <<fixedVars, fs, envWrites, touched, mainVars, clock, runs, previous, hashVars>>

\* os.replace raises FileNotFoundError: there is no file at tmp
WReplaceMissing(p) ==
    /\ w[p].pc = "replace"
    /\ TmpPath(output) \notin DOMAIN names
    /\ w' = [w EXCEPT ![p].pc = "failed"]
    /\ UNCHANGED <<outVars>>
    /\ UNCHANGED <<fixedVars, fs, envWrites, touched, mainVars, clock, runs, previous, hashVars>>

\* the process is killed somewhere in write_output
Crash(p) ==
    /\ w[p].pc \in {"makedirs", "open", "writing", "replace"}
    /\ w' = [w EXCEPT ![p].pc = "crashed"]
    /\ UNCHANGED <<outVars>>
    /\ UNCHANGED <<fixedVars, fs, envWrites, touched, mainVars, clock, runs, previous, hashVars>>

(***************************************************************************)
(* Other processes, and running the script again.                          *)
(***************************************************************************)
Running == pc \in {"loop", "walk", "read", "hash"}

\* file f has been read and its entry is not computed yet
BeingRead(f) == pc = "hash" /\ PathComps(files[j][1]) = f

\* another process rewrites a source file while the script runs
EnvWrite ==
    /\ Running
    /\ envWrites > 0
    /\ \E f \in DOMAIN fs : \E c \in Contents \ {fs[f].data} :
          /\ fs' = [fs EXCEPT ![f].data = c]
          /\ touched' = IF BeingRead(f) THEN "midread"
                        ELSE IF touched = "no" THEN "yes" ELSE touched
    /\ envWrites' = envWrites - 1
    /\ UNCHANGED <<fixedVars, mainVars, clock, outVars, w, runs, previous, hashVars>>

\* another process removes a source file while the script runs
EnvRemove ==
    /\ Running
    /\ envWrites > 0
    /\ \E f \in DOMAIN fs :
          /\ fs' = Unlink(fs, f)
          /\ touched' = IF BeingRead(f) THEN "midread"
                        ELSE IF touched = "no" THEN "yes" ELSE touched
    /\ envWrites' = envWrites - 1
    /\ UNCHANGED <<fixedVars, mainVars, clock, outVars, w, runs, previous, hashVars>>

\* the script has ended and is started again with the same command line
Rerun ==
    /\ pc = "done" \/ (pc = "write" /\ w[1].pc = "failed")
    /\ runs < MaxReruns
    /\ previous' = [scanned |-> scanned, wrote |-> w[1].pc # "idle",
                    files |-> w[1].obj.files, generated |-> w[1].obj.generated]
    /\ runs' = runs + 1
    /\ pc' = "start" /\ rc' = -1 /\ exts' = {} /\ combined' = <<>> /\ i' = 0
    /\ key' = <<>> /\ path' = <<>> /\ pending' = <<>> /\ files' = <<>> /\ j' = 0
    /\ data' = <<>> /\ manifest_files' = <<>> /\ warnings' = <<>> /\ produced' = <<>>
    /\ scanned' = <<>>
    /\ w' = [w EXCEPT ![1] = NotWriting]
    /\ prior' = [odirs |-> odirs, names |-> names, inodes |-> inodes]
    /\ UNCHANGED <<fixedVars, fs, envWrites, touched, clock, odirs, names, inodes, hashVars>>

(***************************************************************************)
(* Initial states.                                                         *)
(***************************************************************************)
\* git_blob_sha1(b""), e69de29bb2d1d6434b8b29ae775ad8c2e48c5391
EmptyBlobSha ==
    <<101, 54, 57, 100, 101, 50, 57, 98, 98, 50, 100, 49, 100, 54, 52, 51, 52, 98, 56, 98,
      50, 57, 97, 101, 55, 55, 53, 97, 100, 56, 99, 50, 101, 52, 56, 99, 53, 51, 57, 49>>

\* a manifest an earlier run left at the destination
OldDoc ==
    Doc([generated |-> 0,
         files |-> <<<<<<111, 108, 100>>, [sha |-> EmptyBlobSha, size |-> 0]>>>>])

\* what the output directory holds before a run: nothing, not even the parent
\* directory of out/m.json; an old m.json; an old m.json and what a killed run
\* left at m.json.tmp
OutLayouts ==
    {[output |-> OutNested, odirs |-> {<<46>>}, names |-> <<>>, inodes |-> <<>>],
     [output |-> OutFlat, odirs |-> {<<46>>}, names |-> (OutFlat :> 1),
      inodes |-> <<OldDoc>>],
     [output |-> OutFlat, odirs |-> {<<46>>},
      names |-> (OutFlat :> 1) @@ (TmpPath(OutFlat) :> 2),
      inodes |-> <<OldDoc, SubSeq(OldDoc, 1, 2)>>]}

InitOut(layout) ==
    /\ output = layout.output
    /\ odirs = layout.odirs
    /\ names = layout.names
    /\ inodes = layout.inodes
    /\ prior = [odirs |-> layout.odirs, names |-> layout.names, inodes |-> layout.inodes]

NoPrevious == [scanned |-> <<>>, wrote |-> FALSE, files |-> <<>>, generated |-> 0]

\* argparse: the --include-ext values are appended to the default ['.json']
IncludeExtArg(given) == <<<<46, 106, 115, 111, 110>>>> \o given

\* one run of the script, no other process
Init ==
    /\ digests = DigestTable
    /\ source \in SourceLists(MaxSources)
    /\ \E e \in ExtArgs : include_ext = IncludeExtArg(e)
    /\ \E layout \in OutLayouts : InitOut(layout)
    /\ fs \in Trees
    /\ envWrites = 0 /\ touched = "no"
    /\ MainAtStart
    /\ clock = 1
    /\ w = [p \in Procs |-> NotWriting]
    /\ runs = 0 /\ previous = NoPrevious
    /\ HashIdle

\* the command lines of the runs during which other processes change the tree:
\*   (none)   -s cards=r/A   -s x=r/B/sub   -s cards=r/A -s "cards= r/B"
\*   -s r/M -s x=r/B/sub
RaceSources ==
    {<<>>,
     <<<<114, 47, 77>>, <<120, 61, 114, 47, 66, 47, 115, 117, 98>>>>,
     <<<<99, 97, 114, 100, 115, 61, 114, 47, 65>>>>,
     <<<<120, 61, 114, 47, 66, 47, 115, 117, 98>>>>,
     <<<<99, 97, 114, 100, 115, 61, 114, 47, 65>>,
       <<99, 97, 114, 100, 115, 61, 32, 114, 47, 66>>>>}

\* one run of the script while other processes change the source tree
InitRace ==
    /\ digests = DigestTable
    /\ source \in RaceSources
    /\ include_ext = IncludeExtArg(<<>>)
    /\ InitOut(CHOOSE layout \in OutLayouts : layout.output = OutNested)
    /\ fs = Tree
    /\ envWrites = MaxEnvWrites /\ touched = "no"
    /\ MainAtStart
    /\ clock = 1
    /\ w = [p \in Procs |-> NotWriting]
    /\ runs = 0 /\ previous = NoPrevious
    /\ HashIdle

\* the --source values of the runs that are repeated:
\*   cards=r/A   cards= r/B   r/M (missing)
RerunArgs ==
    {<<99, 97, 114, 100, 115, 61, 114, 47, 65>>,
     <<99, 97, 114, 100, 115, 61, 32, 114, 47, 66>>,
     <<114, 47, 77>>}

\* the script run, and run again over an unchanged source tree
InitRerun ==
    /\ digests = DigestTable
    /\ source \in UNION {[1..m -> RerunArgs] : m \in 0..MaxSources}
    /\ include_ext = IncludeExtArg(<<>>)
    /\ InitOut(CHOOSE layout \in OutLayouts : layout.output = OutNested)
    /\ fs \in Trees
    /\ envWrites = 0 /\ touched = "no"
    /\ MainAtStart
    /\ clock = 1
    /\ w = [p \in Procs |-> NotWriting]
    /\ runs = 0 /\ previous = NoPrevious
    /\ HashIdle

\* the maps two invocations hand to write_output
ConcMaps ==
    {<<<<<<97>>, [sha |-> EmptyBlobSha, size |-> 0]>>>>,
     <<<<<<98>>, [sha |-> EmptyBlobSha, size |-> 0]>>,
       <<<<97>>, [sha |-> EmptyBlobSha, size |-> 0]>>>>}

\* two invocations of the script, both about to write the same destination
InitConc ==
    /\ digests = DigestTable
    /\ source = <<>> /\ include_ext = IncludeExtArg(<<>>)
    /\ \E layout \in OutLayouts : InitOut(layout)
    /\ fs = Tree
    /\ envWrites = 0 /\ touched = "no"
    /\ pc = "write" /\ rc = -1 /\ exts = {} /\ combined = <<>> /\ i = 0
    /\ key = <<>> /\ path = <<>> /\ pending = <<>> /\ files = <<>> /\ j = 0
    /\ data = <<>> /\ manifest_files = <<>> /\ warnings = <<>> /\ produced = <<>>
    /\ scanned = <<>>
    /\ clock = 3
    /\ \E m1, m2 \in ConcMaps :
          w = [p \in Procs |->
                 [pc |-> "makedirs",
                  obj |-> ManifestObj(IF p = 1 THEN m1 ELSE m2, p),
                  ino |-> 0, off |-> 0]]
    /\ runs = 0 /\ previous = NoPrevious
    /\ HashIdle

\* calls of git_blob_sha1 on the buffers of the model
InitHash ==
    /\ digests = DigestTable
    /\ source = <<>> /\ include_ext = IncludeExtArg(<<>>)
    /\ InitOut(CHOOSE layout \in OutLayouts : layout.output = OutNested)
    /\ fs = Tree
    /\ envWrites = 0 /\ touched = "no"
    /\ MainAtStart
    /\ clock = 1
    /\ w = [p \in Procs |-> NotWriting]
    /\ runs = 0 /\ previous = NoPrevious
    /\ hpc = "call" /\ hdata \in Buffers /\ hheader = <<>> /\ hstream = <<>>
    /\ hdigest = <<>> /\ hfirst = <<>>

(***************************************************************************)
(* Specifications.                                                         *)
(***************************************************************************)
MainStep ==
    \/ MainNoSource \/ MainStart \/ MainSkipSource \/ MainBuild \/ WalkDir
    \/ ReadFile \/ ReadFail \/ RecordFile \/ BuildReturn
    \/ MainNoFiles \/ MainCallWrite

WriteStep(p) ==
    \/ WMakeDirs(p) \/ WOpen(p) \/ WWrite(p) \/ WClose(p) \/ WReplace(p)

WriteFails(p) ==
    \/ WMakeDirsFail(p) \/ WOpenFail(p) \/ WWriteFail(p) \/ WReplaceFail(p)

Next ==
    \/ MainStep
    \/ MainReturn
    \/ \E p \in Procs : WriteStep(p) \/ WriteFails(p) \/ Crash(p)

Spec == Init /\ [][Next]_vars

NextRace == MainStep \/ EnvWrite \/ EnvRemove

SpecRace == InitRace /\ [][NextRace]_vars

NextRerun ==
    \/ MainStep
    \/ MainReturn
    \/ \E p \in Procs : WriteStep(p) \/ WriteFails(p)
    \/ Rerun

SpecRerun == InitRerun /\ [][NextRerun]_vars

NextConc == \E p \in Procs : WriteStep(p) \/ WReplaceMissing(p)

SpecConc == InitConc /\ [][NextConc]_vars

NextHash == HashHeader \/ HashUpdateHeader \/ HashUpdateData \/ HashDigest \/ HashAgain

SpecHash == InitHash /\ [][NextHash]_vars

(***************************************************************************)
(* The claims.                                                             *)
(***************************************************************************)
\* what a reader finds at the destination path
DestView ==
    IF output \in DOMAIN names THEN <<"file", inodes[names[output]]>> ELSE <<"absent">>

\* what the destination held when the run started
PriorView ==
    IF output \in DOMAIN prior.names
    THEN <<"file", prior.inodes[prior.names[output]]>>
    ELSE <<"absent">>

\* SHA-1 of the bytes  blob 7\0{"a":1}
Sha1OfBlobA1 ==
    <<100, 97, 97, 53, 48, 53, 51, 101, 99, 102, 53, 102, 57, 97, 51, 55, 98, 50, 100, 101,
      55, 51, 51, 100, 48, 55, 53, 49, 99, 99, 49, 97, 98, 53, 51, 97, 99, 48, 49, 48>>

\* C8: when git_blob_sha1(b) returns, the stream it has hashed is exactly
\* "blob " + decimal(len(b)) + NUL + b; the digest is 40 lowercase hexadecimal
\* characters (and the known SHA-1 value for the empty buffer and for {"a":1});
\* no other buffer of the model, a prefix of b included, gives the same stream;
\* and a second call on the same buffer returns the same digest.
C8_BlobStreamAndDigest ==
    hpc = "done" =>
        /\ hstream = <<98, 108, 111, 98, 32>>
                        \o (IF Len(hdata) < 10 THEN <<48 + Len(hdata)>>
                            ELSE <<48 + (Len(hdata) \div 10), 48 + (Len(hdata) % 10)>>)
                        \o <<0>> \o hdata
        /\ Len(hdigest) = 40
        /\ \A n \in 1..Len(hdigest) : hdigest[n] \in (48..57) \cup (97..102)
        /\ hdata = <<>> => hdigest = EmptyBlobSha
        /\ hdata = <<123, 34, 97, 34, 58, 49, 125>> => hdigest = Sha1OfBlobA1
        /\ \A b \in Buffers : b # hdata => BlobHeader(b) \o b # hstream
        /\ hfirst # <<>> => hdigest = hfirst

\* the second call on an 11-byte buffer has returned; the 10-byte buffer of
\* the model is a proper prefix of it
C8_Witness ==
    /\ hpc = "done"
    /\ hfirst # <<>>
    /\ Len(hdata) = 11
    /\ \E b \in Buffers : Len(b) = 10 /\ SubSeq(hdata, 1, 10) = b

\* C1: through write_output, however it ends, a reader of the destination
\* finds what was there when the run started (or nothing, if nothing was) or
\* the complete new manifest: the old state until os.replace has succeeded, and
\* still the old state when a step failed or the process was killed.
C1_DestinationOldOrNew ==
    /\ DestView \in {PriorView, <<"file", Doc(w[1].obj)>>}
    /\ w[1].pc \in {"idle", "makedirs", "open", "writing", "replace", "failed", "crashed"}
          => DestView = PriorView
    /\ w[1].pc = "returned" => DestView = <<"file", Doc(w[1].obj)>>

\* a write failed with part of the new manifest in the temporary file, and an
\* old manifest at the destination
C1_Witness ==
    /\ w[1].pc = "failed"
    /\ PriorView # <<"absent">>
    /\ TmpPath(output) \in DOMAIN names
    /\ Len(inodes[names[TmpPath(output)]]) > 0
    /\ Len(inodes[names[TmpPath(output)]]) < Len(Doc(w[1].obj))

\* main has left its loop over the sources
LoopDone == pc \in {"write", "done"} \/ (pc = "loop" /\ i > Len(source))

\* C2: once main is past its loop with no source given or nothing accumulated,
\* it has returned 2 without calling write_output, and the destination, the
\* temporary file and the output directories are as they were; and main
\* returns 2 in no other case.
C2_NothingFoundNothingWritten ==
    /\ (pc \in {"write", "done", "raised"} /\ combined = <<>>)
          => /\ pc = "done" /\ rc = 2
             /\ w[1] = NotWriting
             /\ odirs = prior.odirs /\ names = prior.names /\ inodes = prior.inodes
    /\ (pc = "done" /\ rc = 2) => combined = <<>>

\* a source that is a directory was scanned, gave no entry, and main returned 2
C2_Witness ==
    /\ pc = "done" /\ rc = 2
    /\ produced # <<>>
    /\ \E n \in 1..Len(warnings) : warnings[n][1] = "unreadable"

\* the keys some source has produced so far
ProducedKeys == UNION {Range(DictKeys(produced[n].map)) : n \in 1..Len(produced)}

\* the sources, by their place in the order, that produced key k
ProducersOf(k) == {n \in 1..Len(produced) : DictHas(produced[n].map, k)}

Last(S) == CHOOSE n \in S : \A m \in S : m <= n

\* C3: the entry of every key is the entry of the last source that produced
\* the key, and the key has one collision warning for each source that
\* produced it after another had; there is no other collision warning.
C3_LastSourceWins ==
    /\ Range(DictKeys(combined)) = ProducedKeys
    /\ \A k \in ProducedKeys :
          /\ DictGet(combined, k) = DictGet(produced[Last(ProducersOf(k))].map, k)
          /\ Cardinality({n \in 1..Len(warnings) : warnings[n] = <<"duplicate", k>>})
                = Cardinality(ProducersOf(k)) - 1
    /\ \A n \in 1..Len(warnings) :
          warnings[n][1] = "duplicate" => warnings[n][2] \in ProducedKeys

\* r/B was given before r/A under the same key "cards": both produced
\* cards/a.json, with different entries
C3_Witness ==
    /\ Len(produced) = 2
    /\ produced[1].path = <<114, 47, 66>>
    /\ produced[2].path = <<114, 47, 65>>
    /\ \E k \in ProducedKeys :
          /\ ProducersOf(k) = {1, 2}
          /\ DictGet(produced[1].map, k) # DictGet(produced[2].map, k)

\* the files below the directory with components d
FilesBelow(d) == {f \in DOMAIN fs : Len(f) > Len(d) /\ SubSeq(f, 1, Len(d)) = d}

\* the manifest key of file f of a source with key source_key and directory d
KeyOfFile(source_key, d, f) ==
    ManifestKey(source_key, Join(SubSeq(f, Len(d) + 1, Len(f)), 47))

\* C4: a file of a valid source is in the source's manifest exactly when it is
\* readable and its lower-cased name ends with one of the extensions of the
\* command line (each with its leading ".").
C4_IncludeExtensions ==
    \A n \in 1..Len(produced) :
        \A f \in FilesBelow(PathComps(produced[n].path)) :
            DictHas(produced[n].map, KeyOfFile(produced[n].key, PathComps(produced[n].path), f))
                <=> (fs[f].ok /\ \E e \in exts : EndsWith(Lower(f[Len(f)]), e))

\* the entries the readable files that gather_files keeps below directory d
\* give under the key source_key
ReadableEntries(source_key, d) ==
    {<<KeyOfFile(source_key, d, f), [sha |-> BlobSha(fs[f].data), size |-> Len(fs[f].data)]>> :
        f \in {g \in FilesBelow(d) :
                 fs[g].ok /\ Included(g[Len(g)], GatherExts(BuildIncludeExts))}}

\* the map that processing only the valid ones of the first n sources, and
\* only their readable files, gives
RECURSIVE ValidOnly(_)
ValidOnly(n) ==
    IF n = 0 THEN {}
    ELSE IF ~IsDir(SourcePath(source[n])) THEN ValidOnly(n - 1)
    ELSE LET new == ReadableEntries(SourceKey(source[n]), PathComps(SourcePath(source[n])))
         IN {e \in ValidOnly(n - 1) : \A x \in new : x[1] # e[1]} \cup new

\* C5: no missing source and no unreadable file stops the run: main never
\* ends on their exception, each of them has its warning, and the map main
\* has after n sources is the map that the valid ones of these sources and
\* their readable files give.
C5_ProblemsAreSkipped ==
    /\ pc # "raised"
    /\ pc = "loop" => Range(combined) = ValidOnly(i - 1)
    /\ (LoopDone /\ source # <<>>)
          => /\ Range(combined) = ValidOnly(Len(source))
             /\ \A n \in 1..Len(source) :
                   ~IsDir(SourcePath(source[n]))
                      => <<"missing", SourcePath(source[n])>> \in Range(warnings)
             /\ \A n \in 1..Len(produced) :
                   \A f \in FilesBelow(PathComps(produced[n].path)) :
                       (~fs[f].ok /\ Included(f[Len(f)], GatherExts(BuildIncludeExts)))
                          => \E m \in 1..Len(warnings) :
                                /\ warnings[m][1] = "unreadable"
                                /\ PathComps(warnings[m][2]) = f

\* a run that skipped a missing source and then an unreadable file, and
\* still returned 0
C5_Witness ==
    /\ pc = "done" /\ rc = 0
    /\ \E n, m \in 1..Len(warnings) :
          n < m /\ warnings[n][1] = "missing" /\ warnings[m][1] = "unreadable"

\* ascending, no two equal
StrictlyAscending(ks) == \A n \in 1..(Len(ks) - 1) : LexLess(ks[n], ks[n + 1])

\* cards/a.json and cards/b.json
KeyCardsA == <<99, 97, 114, 100, 115, 47, 97, 46, 106, 115, 111, 110>>
KeyCardsB == <<99, 97, 114, 100, 115, 47, 98, 46, 106, 115, 111, 110>>

\* C6: the keys of the document write_output builds are the keys of the
\* accumulated map, each once, in ascending order, and the document is
\* written in that order; the source r/A (b.json, a.json, c.txt) alone gives
\* cards/a.json then cards/b.json and nothing else.
C6_KeysSorted ==
    \A p \in Procs :
        w[p].pc # "idle" =>
            /\ StrictlyAscending(DictKeys(w[p].obj.files))
            /\ Range(w[p].obj.files) = Range(combined)
            /\ Len(w[p].obj.files) = Len(combined)
            /\ w[p].pc = "returned" =>
                  /\ DestView[1] = "file"
                  /\ [n \in 1..Len(combined) |-> DestView[2][n + 1][2][1]]
                        = DictKeys(w[p].obj.files)
            /\ (source = <<<<99, 97, 114, 100, 115, 61, 114, 47, 65>>>> /\ fs = Tree)
                  => DictKeys(w[p].obj.files) = <<KeyCardsA, KeyCardsB>>

\* a manifest was written whose keys were not inserted in ascending order
C6_Witness ==
    /\ w[1].pc = "returned"
    /\ DictKeys(combined) # DictKeys(w[1].obj.files)

\* C7: a run over the same command line and an unchanged source tree scans,
\* source by source, the same (path, relative path) pairs in the same order as
\* the run before it, however the file system listed the directories in
\* either run; it writes a manifest exactly when the run before did, with the
\* same keys, digests and sizes in the same order.
C7_RerunSameEntries ==
    (runs > 0 /\ touched = "no") =>
        /\ Len(scanned) <= Len(previous.scanned)
        /\ \A n \in 1..Len(scanned) : scanned[n] = previous.scanned[n]
        /\ LoopDone => scanned = previous.scanned
        /\ LoopDone /\ pc # "loop" => (w[1].pc # "idle" <=> previous.wrote)
        /\ w[1].pc # "idle" => w[1].obj.files = previous.files

\* a second run has written a manifest of at least three entries, found in
\* more than one directory
C7_Witness ==
    /\ runs > 0
    /\ pc = "done" /\ rc = 0
    /\ Len(w[1].obj.files) >= 3
    /\ \E n \in 1..Len(scanned) : \E m \in 1..Len(scanned[n]) :
          IndexOf(scanned[n][m][2], 47) # 0

\* the entries main and build_manifest hold, and those handed to write_output
AllEntries ==
    Range(manifest_files) \cup Range(combined) \cup Range(w[1].obj.files)
        \cup UNION {Range(produced[n].map) : n \in 1..Len(produced)}

\* C9: the sha and the size of every entry come from one buffer: the size is
\* the length of the content whose blob digest is the sha, whatever another
\* process does to the file during the run.
C9_ShaAndSizeOfOneBuffer ==
    \A e \in AllEntries :
        \E n \in 1..Len(ContentList) :
            /\ e[2].sha = digests[n]
            /\ e[2].size = Len(ContentList[n])

\* another process changed the length of a file after the script had read it
\* and before its entry was computed, and the entry is in the manifest
C9_Witness ==
    /\ touched = "midread"
    /\ pc = "read"
    /\ j > 1
    /\ DictHas(manifest_files, ManifestKey(key, files[j - 1][2]))
    /\ \/ PathComps(files[j - 1][1]) \notin DOMAIN fs
       \/ Len(fs[PathComps(files[j - 1][1])].data)
             # DictGet(manifest_files, ManifestKey(key, files[j - 1][2])).size

\* C10: with two invocations in write_output on the same destination, a
\* reader of the destination finds what was there before, or the complete
\* manifest of one of the two, and no os.replace fails.
C10_TwoWritersAtomic ==
    /\ DestView \in {PriorView, <<"file", Doc(w[1].obj)>>, <<"file", Doc(w[2].obj)>>}
    /\ \A p \in Procs : w[p].pc # "failed"

====
